---- MODULE Spec2Model ----
(***************************************************************************)
(* Model of mizon_app2.py: the CPI-linked alimony calculator.              *)
(*                                                                         *)
(* Numbers.  Python floats are modelled as exact rationals <<num, den>>    *)
(* in lowest terms with den > 0; the f"{x:.2f}" and f"{x:.4f}" formats are *)
(* modelled as rounding to an integer count of 1/100 or 1/10000.           *)
(* Optional values.  Python's None is the empty tuple; a present value of  *)
(* an integer-valued table cell is the 1-tuple <<x>>.                      *)
(* Dates.  A datetime is the record [year, month, day] (the time of day    *)
(* never decides a comparison in the program).                             *)
(***************************************************************************)
EXTENDS Integers, Sequences, FiniteSets, TLC

VARIABLES
    \* ---- the calculation request (main) ----
    pc,                                   \* position inside main's button handler
    base_mizono_amount,                   \* number_input, line 159
    base_effective_date_obj,              \* line 209
    update_frequency_months,              \* selectbox, line 186
    billing_day_input,                    \* number_input, line 191
    today,                                \* datetime.now(), line 235
    cpi_cache,                            \* st.cache_data memo of get_cpi_value_and_base
    st_error,                             \* st.error messages shown so far
    fixed_base_cpi_value,                 \* line 223
    current_billing_date_for_final_calc,  \* lines 238-245
    current_period_cpi_value_for_final_calc, \* lines 251, 270
    is_estimated_amount,                  \* lines 256-258
    temp_cpi_lookup_date,                 \* lines 263, 278
    final_updated_mizono_amount,          \* line 290 (displayed at line 302)
    annual_linkage_multiplier_final,      \* line 290 (displayed at line 303)
    next_update_display_date,             \* lines 306-310
    history_data,                         \* line 322
    current_displayed_amount_in_history,  \* line 324
    current_scan_date,                    \* line 326
    next_update_calc_date,                \* line 328
    max_scan_limit_date,                  \* line 334
    st_success,                           \* the headline shown at lines 302-303
    \* ---- direct calls of the two pure functions ----
    fn_name, fn_args, fn_ret

vars == <<pc, base_mizono_amount, base_effective_date_obj, update_frequency_months,
          billing_day_input, today, cpi_cache, st_error, fixed_base_cpi_value,
          current_billing_date_for_final_calc, current_period_cpi_value_for_final_calc,
          is_estimated_amount, temp_cpi_lookup_date, final_updated_mizono_amount,
          annual_linkage_multiplier_final, next_update_display_date, history_data,
          current_displayed_amount_in_history, current_scan_date, next_update_calc_date,
          max_scan_limit_date, st_success, fn_name, fn_args, fn_ret>>

mainVars == <<pc, base_mizono_amount, base_effective_date_obj, update_frequency_months,
          billing_day_input, today, cpi_cache, st_error, fixed_base_cpi_value,
          current_billing_date_for_final_calc, current_period_cpi_value_for_final_calc,
          is_estimated_amount, temp_cpi_lookup_date, final_updated_mizono_amount,
          annual_linkage_multiplier_final, next_update_display_date, history_data,
          current_displayed_amount_in_history, current_scan_date, next_update_calc_date,
          max_scan_limit_date, st_success>>

fnVars == <<fn_name, fn_args, fn_ret>>

----------------------------------------------------------------------------
(* Python values *)

None == <<>>

Some(x) == <<x>>

\* The exception a float division by zero raises.
ZeroDivisionError == <<"ZeroDivisionError">>

Abs(i) == IF i < 0 THEN -i ELSE i

Min(a, b) == IF a <= b THEN a ELSE b

\* In the arithmetic below an argument is bound once (v \in {e}) before it is
\* used, so that an argument expression is evaluated a single time.
RECURSIVE Gcd(_, _)
Gcd(a, b) ==
    CHOOSE g \in {IF bv = 0 THEN av ELSE Gcd(bv, av % bv) : av \in {a}, bv \in {b}} : TRUE

\* The rational n/d (d # 0) in lowest terms with a positive denominator.
Rat(n, d) ==
    CHOOSE r \in {<<(s * nv) \div g, (s * dv) \div g>> :
                    <<nv, dv, g, s>> \in
                        {<<nv, dv, Gcd(Abs(nv), Abs(dv)), IF dv < 0 THEN -1 ELSE 1>> :
                            nv \in {n}, dv \in {d}}} : TRUE

Num(n) == <<n, 1>>

IsZero(x) == x[1] = 0

Mul(x, y) ==
    CHOOSE r \in {Rat(xv[1] * yv[1], xv[2] * yv[2]) : xv \in {x}, yv \in {y}} : TRUE

Sub(x, y) ==
    CHOOSE r \in {Rat(xv[1] * yv[2] - yv[1] * xv[2], xv[2] * yv[2]) :
                    xv \in {x}, yv \in {y}} : TRUE

\* Python's x / y on floats: raises ZeroDivisionError when y == 0.
Div(x, y) ==
    CHOOSE r \in {IF IsZero(yv) THEN ZeroDivisionError
                  ELSE Rat(xv[1] * yv[2], xv[2] * yv[1]) : xv \in {x}, yv \in {y}} : TRUE

Greater(x, y) == x[1] * y[2] > y[1] * x[2]

RECURSIVE Pow(_, _)
Pow(x, n) == IF n = 0 THEN Num(1) ELSE Mul(x, Pow(x, n - 1))

\* round-half-even of the rational x to an integer
Round(x) ==
    CHOOSE i \in {IF 2 * r < d THEN q
                  ELSE IF 2 * r > d THEN q + 1
                  ELSE IF q % 2 = 0 THEN q ELSE q + 1 :
                    <<q, r, d>> \in {<<xv[1] \div xv[2], xv[1] % xv[2], xv[2]>> :
                                        xv \in {x}}} : TRUE

\* f"{x:.2f}": x as a count of hundredths
Fmt2(x) == Round(Mul(x, Num(100)))

\* f"{x:.4f}": x as a count of ten-thousandths
Fmt4(x) == Round(Mul(x, Num(10000)))

----------------------------------------------------------------------------
(* datetime, timedelta and pd.DateOffset *)

Date(y, m, d) == [year |-> y, month |-> m, day |-> d]

IsLeap(y) == (y % 4 = 0 /\ y % 100 # 0) \/ y % 400 = 0

DaysInMonth(y, m) ==
    IF m = 2 THEN (IF IsLeap(y) THEN 29 ELSE 28)
    ELSE IF m \in {4, 6, 9, 11} THEN 30 ELSE 31

\* datetime(y, m, d) raises ValueError unless the day exists in the month.
ValidDate(y, m, d) == m \in 1..12 /\ d >= 1 /\ d <= DaysInMonth(y, m)

DateLE(a, b) ==
    \/ a.year < b.year
    \/ a.year = b.year /\ a.month < b.month
    \/ a.year = b.year /\ a.month = b.month /\ a.day <= b.day

\* d - timedelta(days=1)
PrevDay(d) ==
    IF d.day > 1 THEN Date(d.year, d.month, d.day - 1)
    ELSE IF d.month > 1 THEN Date(d.year, d.month - 1, DaysInMonth(d.year, d.month - 1))
    ELSE Date(d.year - 1, 12, 31)

\* d + pd.DateOffset(months=k), k of either sign: the month moves by k with
\* year carry, the day is clamped to the target month's length.
AddMonths(d, k) ==
    CHOOSE r \in {Date(idx \div 12, (idx % 12) + 1,
                       Min(day, DaysInMonth(idx \div 12, (idx % 12) + 1))) :
                    <<idx, day>> \in {<<dv.year * 12 + (dv.month - 1) + k, dv.day>> :
                                        dv \in {d}}} : TRUE

\* d.replace(day=1)
FirstOfMonth(d) == Date(d.year, d.month, 1)

----------------------------------------------------------------------------
(* get_cpi_month_for_effective_date, lines 132-140 *)

\* faulty variant: a one-month lag
get_cpi_month_one_month_lag(effective_date) ==
    LET cpi_date == AddMonths(effective_date, -1)
    IN  <<cpi_date.year, cpi_date.month>>

get_cpi_month_for_effective_date(effective_date) ==
    LET cpi_date == AddMonths(effective_date, -2)
    IN  <<cpi_date.year, cpi_date.month>>

----------------------------------------------------------------------------
(* calculate_indexed_amount_from_fixed_base, lines 80-128 *)

\* ANNUAL_LINKAGE_FACTOR = 1.074, line 11
ANNUAL_LINKAGE_FACTOR == Rat(1074, 1000)

\* lines 93-97: the guard that returns None, None
indexer_guard_without_zero_check(fixed_base_cpi_value_, current_period_cpi_value) ==
    \/ fixed_base_cpi_value_ = None
    \/ current_period_cpi_value = None

indexer_guard(fixed_base_cpi_value_, current_period_cpi_value) ==
    \/ fixed_base_cpi_value_ = None
    \/ current_period_cpi_value = None
    \/ IsZero(fixed_base_cpi_value_)

\* line 101, faulty variant: the ratio is inverted
cpi_indexed_amount_inverted(base_amount, fixed_base_cpi_value_, current_period_cpi_value) ==
    LET ratio == Div(fixed_base_cpi_value_, current_period_cpi_value)
    IN  IF ratio = ZeroDivisionError THEN ZeroDivisionError ELSE Mul(base_amount, ratio)

\* line 101, faulty variant: the division by the base index is missing
cpi_indexed_amount_undivided(base_amount, fixed_base_cpi_value_, current_period_cpi_value) ==
    Mul(base_amount, current_period_cpi_value)

\* line 101: base_amount * (current_period_cpi_value / fixed_base_cpi_value)
cpi_indexed_amount(base_amount, fixed_base_cpi_value_, current_period_cpi_value) ==
    LET ratio == Div(current_period_cpi_value, fixed_base_cpi_value_)
    IN  IF ratio = ZeroDivisionError THEN ZeroDivisionError ELSE Mul(base_amount, ratio)

\* lines 109-113
start_year_for_factor_check(base_effective_date) ==
    IF base_effective_date.month > 2
       \/ (base_effective_date.month = 2 /\ base_effective_date.day >= 28)
    THEN base_effective_date.year + 1
    ELSE base_effective_date.year

\* line 117: datetime(year_to_check_factor, 2, 28)
jan_17_of_check_year(year_to_check_factor) == Date(year_to_check_factor, 2, 28)

\* lines 121-122, faulty variant: the count accumulates, one per elapsed trigger date
count_year_accumulating(num_years, year_to_check_factor, current_billing_date) ==
    IF DateLE(jan_17_of_check_year(year_to_check_factor), current_billing_date)
    THEN num_years + 1 ELSE num_years

\* lines 121-122: the body of the for loop (the count is overwritten with 1)
count_year(num_years, year_to_check_factor, current_billing_date) ==
    IF DateLE(jan_17_of_check_year(year_to_check_factor), current_billing_date)
    THEN 1 ELSE num_years

\* lines 116-122: for year_to_check_factor in range(first, last + 1)
RECURSIVE factor_loop(_, _, _, _)
factor_loop(year_to_check_factor, last_year, current_billing_date, num_years) ==
    IF year_to_check_factor > last_year THEN num_years
    ELSE factor_loop(year_to_check_factor + 1, last_year, current_billing_date,
                     count_year(num_years, year_to_check_factor, current_billing_date))

\* lines 104-122
num_years_for_factor(base_effective_date, current_billing_date) ==
    factor_loop(start_year_for_factor_check(base_effective_date),
                current_billing_date.year, current_billing_date, 0)

\* The function's result.  final_amount and annual_linkage_multiplier are the
\* returned pair; cpi_indexed and num_years expose the locals of lines 101 and
\* 104-122; raised is the exception that left the function, or None.
calculate_indexed_amount_from_fixed_base(base_amount, fixed_base_cpi_value_, current_period_cpi_value, base_effective_date, current_billing_date) ==
    IF indexer_guard(fixed_base_cpi_value_, current_period_cpi_value)
    THEN [final_amount |-> None, annual_linkage_multiplier |-> None,
          cpi_indexed |-> None, num_years |-> None, raised |-> None]
    ELSE LET indexed == cpi_indexed_amount(base_amount, fixed_base_cpi_value_,
                                           current_period_cpi_value)
             n       == num_years_for_factor(base_effective_date, current_billing_date)
             mult    == Pow(ANNUAL_LINKAGE_FACTOR, n)
         IN  IF indexed = ZeroDivisionError
             THEN [final_amount |-> None, annual_linkage_multiplier |-> None,
                   cpi_indexed |-> None, num_years |-> None,
                   raised |-> ZeroDivisionError]
             ELSE [final_amount |-> Mul(indexed, mult),
                   annual_linkage_multiplier |-> mult,
                   cpi_indexed |-> indexed, num_years |-> Some(n), raised |-> None]

----------------------------------------------------------------------------
(* The inputs of one calculation request *)

\* value=2024, the form's default year (line 180)
DefaultYear == 2024

\* index=4 of options 1..12, the form's default month (line 172)
DefaultMonth == 5

\* today is at most this many months after the default effective month
MaxTodayOffset == 10

\* value=4000.0, the form's default amount (line 162)
BaseAmounts == {Num(4000)}

\* the effective months tried: May (31 days), June (30 days) and August (more
\* than two months after the earliest today)
BaseDates ==
    {Date(DefaultYear, DefaultMonth, 1), Date(DefaultYear, DefaultMonth + 1, 1),
     Date(DefaultYear, DefaultMonth + 3, 1)}

\* options=[1, 3, 6, 12], line 187
Frequencies == {1, 3, 6, 12}

\* min_value=1, max_value=31 (lines 193-194): the two extremes
BillingDays == {1, 31}

\* datetime.now(): the effective default month itself, or MaxTodayOffset months on
Todays == {AddMonths(Date(DefaultYear, DefaultMonth, 31), k) : k \in {0, MaxTodayOffset}}

(* get_cpi_value_and_base, lines 24-76: the provider is outside the program.  *)
(* For a period it answers None (not published, network or parse failure:     *)
(* lines 64, 66, 70, 73, 76) or the value (line 62).  The published series    *)
(* is 100.00 for 03/2024 and rises by 0.50 a month; for the periods of        *)
(* ZeroPeriods the provider may also answer 0.0.                              *)
CpiSeries(year, month) ==
    Rat(10000 + 50 * ((year * 12 + month) - (DefaultYear * 12 + 3)), 100)

ZeroPeriods == {<<DefaultYear, 3>>}

ProviderOutcomes(year, month) ==
    {None, CpiSeries(year, month)}
        \cup (IF <<year, month>> \in ZeroPeriods THEN {Num(0)} ELSE {})

\* One call get_cpi_value_and_base(period) answering v: a cached period answers
\* as before (st.cache_data, line 23), a new one is asked of the provider.
Fetch(period, v) ==
    /\ IF period \in DOMAIN cpi_cache
       THEN v = cpi_cache[period]
       ELSE v \in ProviderOutcomes(period[1], period[2])
    /\ cpi_cache' = IF period \in DOMAIN cpi_cache THEN cpi_cache
                    ELSE (period :> v) @@ cpi_cache

NoDate == Date(0, 0, 0)

----------------------------------------------------------------------------
(* main: the billing date of a month, lines 238-245 and 344-350 *)

\* the except branch: min(billing_day, (datetime(y, m % 12 + 1, 1) - 1 day).day)
clamped_billing_date(year, month, billing_day) ==
    Date(year, month,
         Min(billing_day, PrevDay(Date(year, (month % 12) + 1, 1)).day))

\* try: datetime(y, m, billing_day)  except ValueError: the clamped date
billing_date_for_month(year, month, billing_day) ==
    IF ValidDate(year, month, billing_day)
    THEN Date(year, month, billing_day)
    ELSE clamped_billing_date(year, month, billing_day)

\* line 225, faulty variant: the missing fixed base is not noticed
fixed_base_missing_unnoticed(v) == FALSE

\* line 225: if fixed_base_cpi_value is None
fixed_base_missing(v) == v = None

\* lines 306-308: while next_update_display_date <= today: += frequency
RECURSIVE next_update_display_loop(_, _, _)
next_update_display_loop(d, now, frequency) ==
    CHOOSE r \in {IF DateLE(dv, now)
                  THEN next_update_display_loop(AddMonths(dv, frequency), now, frequency)
                  ELSE dv : dv \in {d}} : TRUE

\* line 334, faulty variant: the "+ pd.DateOffset(months=1)" is missing
max_scan_limit_one_month_short(now) == PrevDay(FirstOfMonth(AddMonths(now, 2)))

\* line 334
max_scan_limit(now) == PrevDay(AddMonths(FirstOfMonth(AddMonths(now, 2)), 1))

\* line 336: while current_scan_date <= max_scan_limit_date
scan_continues(scan_date, limit) == DateLE(scan_date, limit)

\* lines 337-340
is_official_update_point(scan_date, next_update) ==
    scan_date.year = next_update.year /\ scan_date.month = next_update.month

\* line 417
advance_update_cursor(next_update, frequency) == AddMonths(next_update, frequency)

\* line 433
advance_scan_date(scan_date) == AddMonths(scan_date, 1)

(* The rows of history_data.  effective_date is the date column, official   *)
(* says the base-index column is filled, applied_period and quote are the   *)
(* update-index column, amount is the amount column in hundredths, estimate *)
(* its "(estimate - index not yet published)" suffix.  billing_date is not  *)
(* a column: it records the billing date the row was computed with.         *)

\* lines 368-378, faulty variant: the estimate row re-applies the annual factor
estimate_row_drifting(scan_date, period, displayed_amount, billing_date) ==
    [effective_date |-> scan_date, official |-> TRUE, applied_period |-> period,
     quote |-> None, cpi_only_change |-> None, annual_factor |-> None,
     total_change |-> None,
     amount |-> Fmt2(Mul(displayed_amount, ANNUAL_LINKAGE_FACTOR)), estimate |-> TRUE,
     billing_date |-> billing_date]

\* lines 368-378
estimate_row(scan_date, period, displayed_amount, billing_date) ==
    [effective_date |-> scan_date, official |-> TRUE, applied_period |-> period,
     quote |-> None, cpi_only_change |-> None, annual_factor |-> None,
     total_change |-> None, amount |-> Fmt2(displayed_amount), estimate |-> TRUE,
     billing_date |-> billing_date]

\* lines 392-412
update_row(scan_date, period, quote, fixed_base, base_amount, calc, billing_date) ==
    LET cpi_only_change_percent ==
            Mul(Sub(Div(quote, fixed_base), Num(1)), Num(100))
        total_change_percent ==
            IF Greater(calc.annual_linkage_multiplier, Num(1))
            THEN Mul(Sub(Div(calc.final_amount, base_amount), Num(1)), Num(100))
            ELSE cpi_only_change_percent
    IN  [effective_date |-> scan_date, official |-> TRUE, applied_period |-> period,
         quote |-> quote, cpi_only_change |-> Some(Fmt2(cpi_only_change_percent)),
         annual_factor |-> Some(Fmt4(calc.annual_linkage_multiplier)),
         total_change |-> Some(Fmt2(total_change_percent)),
         amount |-> Fmt2(calc.final_amount), estimate |-> FALSE,
         billing_date |-> billing_date]

\* lines 421-431
carry_row(scan_date, displayed_amount) ==
    [effective_date |-> scan_date, official |-> FALSE, applied_period |-> None,
     quote |-> None, cpi_only_change |-> None, annual_factor |-> None,
     total_change |-> None, amount |-> Fmt2(displayed_amount), estimate |-> FALSE,
     billing_date |-> NoDate]

----------------------------------------------------------------------------
(* main, lines 203-444: one press of the "calculate" button *)

cfgVars == <<base_mizono_amount, base_effective_date_obj, update_frequency_months,
             billing_day_input, today>>

headVars == <<current_billing_date_for_final_calc, current_period_cpi_value_for_final_calc,
              is_estimated_amount, temp_cpi_lookup_date>>

resultVars == <<final_updated_mizono_amount, annual_linkage_multiplier_final,
                next_update_display_date, st_success>>

loopVars == <<history_data, current_displayed_amount_in_history, current_scan_date,
              next_update_calc_date, max_scan_limit_date>>

\* The state when the button is pressed, for one filling of the form.
RequestInit(amount, base_date, frequency, billing_day, now) ==
    /\ pc = "idle"
    /\ base_mizono_amount = amount
    /\ base_effective_date_obj = base_date
    /\ update_frequency_months = frequency
    /\ billing_day_input = billing_day
    /\ today = now
    /\ cpi_cache = <<>>
    /\ st_error = <<>>
    /\ fixed_base_cpi_value = None
    /\ current_billing_date_for_final_calc = NoDate
    /\ current_period_cpi_value_for_final_calc = None
    /\ is_estimated_amount = FALSE
    /\ temp_cpi_lookup_date = NoDate
    /\ final_updated_mizono_amount = None
    /\ annual_linkage_multiplier_final = None
    /\ next_update_display_date = NoDate
    /\ history_data = <<>>
    /\ current_displayed_amount_in_history = None
    /\ current_scan_date = NoDate
    /\ next_update_calc_date = NoDate
    /\ max_scan_limit_date = NoDate
    /\ st_success = None

Init ==
    /\ \E amount \in BaseAmounts, base_date \in BaseDates, frequency \in Frequencies,
          billing_day \in BillingDays, now \in Todays :
            RequestInit(amount, base_date, frequency, billing_day, now)
    /\ fn_name = "none"
    /\ fn_args = <<>>
    /\ fn_ret = <<>>

fixed_base_period == get_cpi_month_for_effective_date(base_effective_date_obj)

\* lines 205-216: the billing day does not exist in the effective month
InvalidBillingDate ==
    /\ pc = "idle"
    /\ ~ValidDate(base_effective_date_obj.year, base_effective_date_obj.month,
                  billing_day_input)
    /\ st_error' = Append(st_error, "invalid_billing_date")
    /\ pc' = "done"
    /\ UNCHANGED <<cfgVars, headVars, resultVars, loopVars, cpi_cache,
                   fixed_base_cpi_value, fnVars>>

\* lines 205-232: the fixed base index is fetched
ResolveFixedBase ==
    /\ pc = "idle"
    /\ ValidDate(base_effective_date_obj.year, base_effective_date_obj.month,
                 billing_day_input)
    /\ \E v \in ProviderOutcomes(fixed_base_period[1], fixed_base_period[2]) :
          /\ Fetch(fixed_base_period, v)
          /\ fixed_base_cpi_value' = v
          /\ IF fixed_base_missing(v)
             THEN /\ st_error' = Append(st_error, "fixed_base_unavailable")
                  /\ pc' = "done"
             ELSE /\ st_error' = st_error
                  /\ pc' = "current"
    /\ UNCHANGED <<cfgVars, headVars, resultVars, loopVars, fnVars>>

\* line 249, faulty variant: the headline reads the index one month before today
current_period_one_month_lag == get_cpi_month_one_month_lag(today)

\* line 249: get_cpi_month_for_effective_date(today)
current_period == get_cpi_month_for_effective_date(today)

\* lines 235-263 and 284-287: today's billing date and today's index
ResolveCurrent ==
    /\ pc = "current"
    /\ current_billing_date_for_final_calc' =
          billing_date_for_month(today.year, today.month, billing_day_input)
    /\ \E v \in ProviderOutcomes(current_period[1], current_period[2]) :
          /\ Fetch(current_period, v)
          /\ current_period_cpi_value_for_final_calc' = v
          /\ IF v = None
             THEN /\ is_estimated_amount' = TRUE
                  /\ temp_cpi_lookup_date' =
                        AddMonths(Date(current_period[1], current_period[2], 1), -1)
                  /\ pc' = "scan_back"
             ELSE /\ UNCHANGED <<is_estimated_amount, temp_cpi_lookup_date>>
                  /\ pc' = "final"
    /\ UNCHANGED <<cfgVars, resultVars, loopVars, st_error, fixed_base_cpi_value, fnVars>>

\* line 265: temp_cpi_lookup_date >= datetime(fixed_base_cpi_year, fixed_base_cpi_month, 1)
scan_back_continues ==
    DateLE(Date(fixed_base_period[1], fixed_base_period[2], 1), temp_cpi_lookup_date)

\* lines 265-278: one turn of the backward search for the last published index
ScanBack ==
    /\ pc = "scan_back"
    /\ scan_back_continues
    /\ LET period == <<temp_cpi_lookup_date.year, temp_cpi_lookup_date.month>>
       IN  \E v \in ProviderOutcomes(period[1], period[2]) :
              /\ Fetch(period, v)
              /\ IF v # None
                 THEN /\ current_period_cpi_value_for_final_calc' = v
                      /\ pc' = "final"
                      /\ UNCHANGED temp_cpi_lookup_date
                 ELSE /\ temp_cpi_lookup_date' = AddMonths(temp_cpi_lookup_date, -1)
                      /\ UNCHANGED <<current_period_cpi_value_for_final_calc, pc>>
    /\ UNCHANGED <<cfgVars, resultVars, loopVars, st_error, fixed_base_cpi_value,
                   current_billing_date_for_final_calc, is_estimated_amount, fnVars>>

\* lines 265 and 280-283: the search ran out of periods
ScanBackFailed ==
    /\ pc = "scan_back"
    /\ ~scan_back_continues
    /\ final_updated_mizono_amount' = base_mizono_amount
    /\ st_error' = Append(st_error, "no_cpi_data")
    /\ pc' = "done"
    /\ UNCHANGED <<cfgVars, headVars, loopVars, cpi_cache, fixed_base_cpi_value,
                   annual_linkage_multiplier_final, next_update_display_date,
                   st_success, fnVars>>

\* lines 290-334: the headline amount, the next update date, the start of the table
FinalCalc ==
    /\ pc = "final"
    /\ LET calc == calculate_indexed_amount_from_fixed_base(
                       base_mizono_amount, fixed_base_cpi_value,
                       current_period_cpi_value_for_final_calc,
                       base_effective_date_obj, current_billing_date_for_final_calc)
       IN  IF calc.raised # None
           THEN /\ pc' = "crashed"
                /\ UNCHANGED <<resultVars, loopVars>>
           ELSE /\ final_updated_mizono_amount' = calc.final_amount
                /\ annual_linkage_multiplier_final' = calc.annual_linkage_multiplier
                /\ IF calc.final_amount # None
                   THEN /\ st_success' =
                             Some([amount |-> Fmt2(calc.final_amount),
                                   estimate |-> is_estimated_amount,
                                   multiplier |-> Fmt4(calc.annual_linkage_multiplier)])
                        /\ next_update_display_date' =
                             next_update_display_loop(base_effective_date_obj, today,
                                                      update_frequency_months)
                        /\ history_data' = <<>>
                        /\ current_displayed_amount_in_history' = base_mizono_amount
                        /\ current_scan_date' = base_effective_date_obj
                        /\ next_update_calc_date' = base_effective_date_obj
                        /\ max_scan_limit_date' = max_scan_limit(today)
                        /\ pc' = "loop"
                   ELSE /\ pc' = "done"
                        /\ UNCHANGED <<next_update_display_date, st_success, loopVars>>
    /\ UNCHANGED <<cfgVars, headVars, cpi_cache, st_error, fixed_base_cpi_value, fnVars>>

scan_period == get_cpi_month_for_effective_date(current_scan_date)

\* faulty variant of OfficialUnpublished: the missing index ends the table (a break)
OfficialUnpublishedAborts ==
    /\ pc = "loop"
    /\ scan_continues(current_scan_date, max_scan_limit_date)
    /\ is_official_update_point(current_scan_date, next_update_calc_date)
    /\ Fetch(scan_period, None)
    /\ None \in ProviderOutcomes(scan_period[1], scan_period[2])
    /\ pc' = "done"
    /\ UNCHANGED <<cfgVars, headVars, resultVars, loopVars, st_error,
                   fixed_base_cpi_value, fnVars>>

\* faulty variant of OfficialUnpublished: the cursor waits for the missing index (no line 417)
OfficialUnpublishedKeepsCursor ==
    /\ pc = "loop"
    /\ scan_continues(current_scan_date, max_scan_limit_date)
    /\ is_official_update_point(current_scan_date, next_update_calc_date)
    /\ Fetch(scan_period, None)
    /\ None \in ProviderOutcomes(scan_period[1], scan_period[2])
    /\ history_data' = Append(history_data,
          estimate_row(current_scan_date, scan_period,
                       current_displayed_amount_in_history,
                       billing_date_for_month(current_scan_date.year,
                                              current_scan_date.month,
                                              billing_day_input)))
    /\ current_scan_date' = advance_scan_date(current_scan_date)
    /\ UNCHANGED <<pc, cfgVars, headVars, resultVars, st_error, fixed_base_cpi_value,
                   current_displayed_amount_in_history, max_scan_limit_date,
                   next_update_calc_date, fnVars>>

\* lines 336-378, 417, 433: an official month whose index is not published
OfficialUnpublished ==
    /\ pc = "loop"
    /\ scan_continues(current_scan_date, max_scan_limit_date)
    /\ is_official_update_point(current_scan_date, next_update_calc_date)
    /\ Fetch(scan_period, None)
    /\ None \in ProviderOutcomes(scan_period[1], scan_period[2])
    /\ history_data' = Append(history_data,
          estimate_row(current_scan_date, scan_period,
                       current_displayed_amount_in_history,
                       billing_date_for_month(current_scan_date.year,
                                              current_scan_date.month,
                                              billing_day_input)))
    /\ next_update_calc_date' =
          advance_update_cursor(next_update_calc_date, update_frequency_months)
    /\ current_scan_date' = advance_scan_date(current_scan_date)
    /\ UNCHANGED <<pc, cfgVars, headVars, resultVars, st_error, fixed_base_cpi_value,
                   current_displayed_amount_in_history, max_scan_limit_date, fnVars>>

\* faulty variant of OfficialUpdate: the last displayed amount is indexed (chaining)
OfficialUpdateChained ==
    /\ pc = "loop"
    /\ scan_continues(current_scan_date, max_scan_limit_date)
    /\ is_official_update_point(current_scan_date, next_update_calc_date)
    /\ \E v \in ProviderOutcomes(scan_period[1], scan_period[2]) \ {None} :
          /\ Fetch(scan_period, v)
          /\ LET billing == billing_date_for_month(current_scan_date.year,
                                                   current_scan_date.month,
                                                   billing_day_input)
                 calc == calculate_indexed_amount_from_fixed_base(
                             current_displayed_amount_in_history,
                             fixed_base_cpi_value, v,
                             base_effective_date_obj, billing)
             IN  IF calc.raised # None
                 THEN /\ pc' = "crashed"
                      /\ UNCHANGED loopVars
                 ELSE IF calc.final_amount # None
                 THEN /\ current_displayed_amount_in_history' = calc.final_amount
                      /\ history_data' = Append(history_data,
                            update_row(current_scan_date, scan_period, v,
                                       fixed_base_cpi_value, base_mizono_amount,
                                       calc, billing))
                      /\ next_update_calc_date' =
                            advance_update_cursor(next_update_calc_date,
                                                  update_frequency_months)
                      /\ current_scan_date' = advance_scan_date(current_scan_date)
                      /\ UNCHANGED <<pc, max_scan_limit_date>>
                 ELSE \* lines 413-415: warning, break
                      /\ pc' = "done"
                      /\ UNCHANGED loopVars
    /\ UNCHANGED <<cfgVars, headVars, resultVars, st_error, fixed_base_cpi_value, fnVars>>

\* lines 336-364, 379-417, 433: an official month whose index is published
OfficialUpdate ==
    /\ pc = "loop"
    /\ scan_continues(current_scan_date, max_scan_limit_date)
    /\ is_official_update_point(current_scan_date, next_update_calc_date)
    /\ \E v \in ProviderOutcomes(scan_period[1], scan_period[2]) \ {None} :
          /\ Fetch(scan_period, v)
          /\ LET billing == billing_date_for_month(current_scan_date.year,
                                                   current_scan_date.month,
                                                   billing_day_input)
                 calc == calculate_indexed_amount_from_fixed_base(
                             base_mizono_amount, fixed_base_cpi_value, v,
                             base_effective_date_obj, billing)
             IN  IF calc.raised # None
                 THEN /\ pc' = "crashed"
                      /\ UNCHANGED loopVars
                 ELSE IF calc.final_amount # None
                 THEN /\ current_displayed_amount_in_history' = calc.final_amount
                      /\ history_data' = Append(history_data,
                            update_row(current_scan_date, scan_period, v,
                                       fixed_base_cpi_value, base_mizono_amount,
                                       calc, billing))
                      /\ next_update_calc_date' =
                            advance_update_cursor(next_update_calc_date,
                                                  update_frequency_months)
                      /\ current_scan_date' = advance_scan_date(current_scan_date)
                      /\ UNCHANGED <<pc, max_scan_limit_date>>
                 ELSE \* lines 413-415: warning, break
                      /\ pc' = "done"
                      /\ UNCHANGED loopVars
    /\ UNCHANGED <<cfgVars, headVars, resultVars, st_error, fixed_base_cpi_value, fnVars>>

\* lines 336-341, 419-433: a month between two official months
NonUpdateMonth ==
    /\ pc = "loop"
    /\ scan_continues(current_scan_date, max_scan_limit_date)
    /\ ~is_official_update_point(current_scan_date, next_update_calc_date)
    /\ history_data' = Append(history_data,
          carry_row(current_scan_date, current_displayed_amount_in_history))
    /\ current_scan_date' = advance_scan_date(current_scan_date)
    /\ UNCHANGED <<pc, cfgVars, headVars, resultVars, cpi_cache, st_error,
                   fixed_base_cpi_value, current_displayed_amount_in_history,
                   next_update_calc_date, max_scan_limit_date, fnVars>>

\* lines 336 and 435-444: the loop condition fails, the table is shown
ScanFinished ==
    /\ pc = "loop"
    /\ ~scan_continues(current_scan_date, max_scan_limit_date)
    /\ pc' = "done"
    /\ UNCHANGED <<cfgVars, headVars, resultVars, loopVars, cpi_cache, st_error,
                   fixed_base_cpi_value, fnVars>>

Next ==
    \/ InvalidBillingDate
    \/ ResolveFixedBase
    \/ ResolveCurrent
    \/ ScanBack
    \/ ScanBackFailed
    \/ FinalCalc
    \/ OfficialUnpublished
    \/ OfficialUpdate
    \/ NonUpdateMonth
    \/ ScanFinished

Spec == Init /\ [][Next]_vars

\* main runs as one sequential script: whenever it has a next step it takes it
FairSpec == Spec /\ WF_vars(Next)

----------------------------------------------------------------------------
(* Direct calls of the two pure functions, one call per behaviour *)

\* the calls' dates lie in DefaultYear - 1 .. DefaultYear + MaxYearsAhead
MaxYearsAhead == 2

FnYears == (DefaultYear - 1)..(DefaultYear + MaxYearsAhead)

FnDates(years, months, days) ==
    {Date(y, m, d) : <<y, m, d>> \in
        {t \in years \X months \X days : ValidDate(t[1], t[2], t[3])}}

ResolverDates == FnDates(FnYears, 1..12, {1, 28, 31})

FnStartDates == FnDates({DefaultYear, DefaultYear + 1}, {1, 2, 3, 5}, {1, 27, 28, 29})

FnBillingDates == FnDates(FnYears, {1, 2, 3, 12}, {1, 27, 28, 29, 31})

FnAmounts == {Num(1), Num(4000)}

FnCpiValues == {None, Num(0), Num(100), Num(103)}

FnInit ==
    /\ RequestInit(Num(4000), Date(DefaultYear, DefaultMonth, 1), 3, 1,
                   Date(DefaultYear, DefaultMonth, 31))
    /\ fn_name = "none"
    /\ fn_args = <<>>
    /\ fn_ret = <<>>

CallResolver ==
    /\ fn_name = "none"
    /\ \E effective_date \in ResolverDates :
          /\ fn_name' = "get_cpi_month_for_effective_date"
          /\ fn_args' = <<effective_date>>
          /\ fn_ret' = get_cpi_month_for_effective_date(effective_date)
    /\ UNCHANGED mainVars

CallIndexer ==
    /\ fn_name = "none"
    /\ \E base_amount \in FnAmounts, fixed \in FnCpiValues, current \in FnCpiValues,
          start \in FnStartDates, billing \in FnBillingDates :
          /\ fn_name' = "calculate_indexed_amount_from_fixed_base"
          /\ fn_args' = [base_amount |-> base_amount, fixed_base_cpi_value |-> fixed,
                         current_period_cpi_value |-> current,
                         base_effective_date |-> start,
                         current_billing_date |-> billing]
          /\ fn_ret' = calculate_indexed_amount_from_fixed_base(
                           base_amount, fixed, current, start, billing)
    /\ UNCHANGED mainVars

FnNext == CallResolver \/ CallIndexer

FnSpec == FnInit /\ [][FnNext]_vars

ResolverCalled == fn_name = "get_cpi_month_for_effective_date"

IndexerCalled == fn_name = "calculate_indexed_amount_from_fixed_base"

----------------------------------------------------------------------------
(* Properties of the pure functions, under FnSpec *)

\* C6: for every effective date (year y, month m) the period resolver returns
\* the month two calendar months earlier: (y, m-2) when m >= 3, (y-1, 11) when
\* m = 1, (y-1, 12) when m = 2.
C6_ResolverTwoMonthsEarlier ==
    ResolverCalled =>
        LET d == fn_args[1]
        IN  fn_ret = IF d.month >= 3 THEN <<d.year, d.month - 2>>
                     ELSE IF d.month = 1 THEN <<d.year - 1, 11>>
                     ELSE <<d.year - 1, 12>>

\* a January date was resolved to November of the year before
C6_Witness ==
    /\ ResolverCalled
    /\ fn_args[1].month = 1
    /\ fn_ret = <<fn_args[1].year - 1, 11>>

\* the yearly trigger date of a year
TriggerDate(y) == Date(y, 2, 28)

DateLT(a, b) == DateLE(a, b) /\ a # b

\* the first trigger date on or after start
FirstTriggerAtOrAfter(start) ==
    LET y == CHOOSE y \in start.year..(start.year + 1) :
                /\ DateLE(start, TriggerDate(y))
                /\ \A z \in start.year..(start.year + 1) :
                      DateLE(start, TriggerDate(z)) => y <= z
    IN  TriggerDate(y)

\* the first trigger date strictly after start
FirstTriggerAfter(start) ==
    LET y == CHOOSE y \in start.year..(start.year + 1) :
                /\ DateLT(start, TriggerDate(y))
                /\ \A z \in start.year..(start.year + 1) :
                      DateLT(start, TriggerDate(z)) => y <= z
    IN  TriggerDate(y)

\* the multiplier is f^n with n in {0, 1}, n = 1 exactly from `first` on
MultiplierSwitchesAt(first) ==
    LET n == fn_ret.num_years[1]
    IN  /\ n \in {0, 1}
        /\ n = 1 <=> DateLE(first, fn_args.current_billing_date)
        /\ fn_ret.annual_linkage_multiplier =
              (IF n = 0 THEN Num(1) ELSE ANNUAL_LINKAGE_FACTOR)

AbsentOrZeroBase ==
    \/ fn_args.fixed_base_cpi_value = None
    \/ fn_args.current_period_cpi_value = None
    \/ fn_args.fixed_base_cpi_value = Num(0)

\* C8: the indexer returns None for the amount and for the multiplier whenever
\* the fixed base value is absent, the current value is absent or the fixed base
\* value is 0, without dividing and without raising; in every other case it
\* returns an amount.
C8_AbsentOnMissingOrZeroBase ==
    IndexerCalled =>
        /\ fn_ret.raised = None
        /\ AbsentOrZeroBase =>
              /\ fn_ret.final_amount = None
              /\ fn_ret.annual_linkage_multiplier = None
              /\ fn_ret.cpi_indexed = None
        /\ ~AbsentOrZeroBase => fn_ret.final_amount # None

\* a call with a present current value and a fixed base value of 0 returned None
C8_Witness ==
    /\ IndexerCalled
    /\ fn_args.fixed_base_cpi_value = Num(0)
    /\ fn_args.current_period_cpi_value = Num(103)
    /\ fn_ret.final_amount = None
    /\ fn_ret.raised = None

Positive(x) == x # None /\ x[1] > 0

\* C9: for every positive base amount a and positive index value b, the amount
\* indexed with current index b and fixed base index b is exactly a (the
\* returned amount is that amount times the annual multiplier).
C9_IndexerIdentity ==
    (/\ IndexerCalled
     /\ Positive(fn_args.fixed_base_cpi_value)
     /\ fn_args.current_period_cpi_value = fn_args.fixed_base_cpi_value) =>
        /\ fn_ret.cpi_indexed = fn_args.base_amount
        /\ fn_ret.final_amount =
              Mul(fn_args.base_amount, fn_ret.annual_linkage_multiplier)

\* 4000 indexed from 103 to 103 stayed 4000
C9_Witness ==
    /\ IndexerCalled
    /\ fn_args.base_amount = Num(4000)
    /\ fn_args.fixed_base_cpi_value = Num(103)
    /\ fn_args.current_period_cpi_value = Num(103)
    /\ fn_ret.cpi_indexed = Num(4000)

----------------------------------------------------------------------------
(* Properties of the calculation request, under Spec *)

Range(f) == {f[i] : i \in DOMAIN f}

MonthIndex(d) == d.year * 12 + (d.month - 1)

Row(i) == history_data[i]

\* the amount in force before row i: the previous row's, or the base amount
AmountBefore(i) == IF i = 1 THEN Fmt2(base_mizono_amount) ELSE Row(i - 1).amount

\* C1: every row that is a non-official month, or an official month whose
\* quote is absent, shows the amount of the row before it (the base amount
\* when it is the first row).
C1_CarryForward ==
    \A i \in 1..Len(history_data) :
        (~Row(i).official \/ Row(i).quote = None) => Row(i).amount = AmountBefore(i)

\* both kinds of carried row occur after an update that moved the amount
C1_Witness ==
    \E i, j \in 2..Len(history_data) :
        /\ Row(i).official /\ Row(i).quote = None
        /\ ~Row(j).official
        /\ Row(i).amount # Fmt2(base_mizono_amount)
        /\ Row(j).amount # Fmt2(base_mizono_amount)
        /\ Row(i).amount = Row(i - 1).amount
        /\ Row(j).amount = Row(j - 1).amount

\* scanEnd: the month two months after today's
ScanEndMonth == AddMonths(FirstOfMonth(today), 2)

\* the calendar months from baseEffectiveDate through scanEnd, in order
ExpectedMonths ==
    LET n == MonthIndex(ScanEndMonth) - MonthIndex(base_effective_date_obj) + 1
    IN  [i \in 1..(IF n > 0 THEN n ELSE 0) |-> AddMonths(base_effective_date_obj, i - 1)]

EventDates == [i \in 1..Len(history_data) |-> Row(i).effective_date]

HeadlineShown == st_success # None

OfficialRows == {i \in 1..Len(history_data) : Row(i).official}

\* C3: a row is an official update point exactly when its distance in months
\* from baseEffectiveDate is k * updateFrequencyMonths, k >= 0; the cursor has
\* advanced by updateFrequencyMonths once per official row, whether its quote
\* was present or absent.
C3_OfficialAtMultiplesOfFrequency ==
    /\ \A i \in 1..Len(history_data) :
          LET dist == MonthIndex(Row(i).effective_date)
                        - MonthIndex(base_effective_date_obj)
          IN  Row(i).official <=> (dist >= 0 /\ dist % update_frequency_months = 0)
    /\ pc = "loop" =>
          next_update_calc_date =
              AddMonths(base_effective_date_obj,
                        update_frequency_months * Cardinality(OfficialRows))

\* with frequency 3, an official month without a quote is followed three
\* months later by the next official month
C3_Witness ==
    /\ update_frequency_months = 3
    /\ \E i \in 1..Len(history_data) :
          /\ Row(i).estimate
          /\ i + 3 <= Len(history_data)
          /\ Row(i + 3).official
          /\ ~Row(i + 1).official /\ ~Row(i + 2).official

\* the billing date the specification prescribes for a month
PrescribedBillingDate(year, month) ==
    Date(year, month, Min(billing_day_input, DaysInMonth(year, month)))

\* C4: a billing day that does not exist in some month is never a fatal error:
\* the request is not rejected for it, and today's month and every official
\* month get the billing date (year, month, min(billingDay, last day)).
C4_BillingDayNeverFatal ==
    /\ "invalid_billing_date" \notin Range(st_error)
    /\ current_billing_date_for_final_calc # NoDate =>
          current_billing_date_for_final_calc =
              PrescribedBillingDate(today.year, today.month)
    /\ \A i \in OfficialRows :
          Row(i).billing_date =
              PrescribedBillingDate(Row(i).effective_date.year,
                                    Row(i).effective_date.month)

FixedBaseQuoteAbsent ==
    /\ fixed_base_period \in DOMAIN cpi_cache
    /\ cpi_cache[fixed_base_period] = None

\* C5: if the fixed-base quote is absent the request fails explicitly: it shows
\* an error, no current amount, no next-update date and no rows, and it asks
\* for no other period's index.
C5_FixedBaseAbsentFails ==
    FixedBaseQuoteAbsent =>
        /\ pc = "done"
        /\ "fixed_base_unavailable" \in Range(st_error)
        /\ fixed_base_cpi_value = None
        /\ final_updated_mizono_amount = None
        /\ st_success = None
        /\ next_update_display_date = NoDate
        /\ history_data = <<>>
        /\ DOMAIN cpi_cache = {fixed_base_period}

C5_Witness ==
    /\ FixedBaseQuoteAbsent
    /\ pc = "done"
    /\ st_error = <<"fixed_base_unavailable">>

\* the scenario of C10
C10_Scenario ==
    /\ base_mizono_amount = Num(4000)
    /\ update_frequency_months = 3
    /\ base_effective_date_obj = Date(2024, 5, 1)
    /\ fixed_base_cpi_value = Num(100)
    /\ <<2024, 3>> \in DOMAIN cpi_cache /\ cpi_cache[<<2024, 3>>] = Num(100)
    /\ <<2024, 9>> \in DOMAIN cpi_cache /\ cpi_cache[<<2024, 9>>] = Num(103)

\* C10: base amount 4000, frequency 3, base 2024-05, index 100.00 for 2024-03
\* and 103.00 for 2024-09: the November 2024 row is an official update point
\* that applies period 2024-09; its amount is 4120.00 before the annual
\* multiplier (an index change of 3.00%) and 4120.00 * factor^n after it, n
\* being the count for start 2024-05 and November's billing date (n = 0).
C10_NovemberEvent ==
    C10_Scenario =>
        \A i \in 1..Len(history_data) :
            Row(i).effective_date = Date(2024, 11, 1) =>
                LET n == num_years_for_factor(base_effective_date_obj,
                                              Row(i).billing_date)
                IN  /\ Row(i).official
                    /\ Row(i).applied_period = <<2024, 9>>
                    /\ Row(i).quote = Num(103)
                    /\ Row(i).cpi_only_change = Some(300)
                    /\ Row(i).billing_date = PrescribedBillingDate(2024, 11)
                    /\ Row(i).annual_factor = Some(Fmt4(Pow(ANNUAL_LINKAGE_FACTOR, n)))
                    /\ Row(i).amount = Fmt2(Mul(Num(4120), Pow(ANNUAL_LINKAGE_FACTOR, n)))
                    /\ n = 0
                    /\ Row(i).amount = 412000

C10_Witness ==
    /\ C10_Scenario
    /\ pc = "done"
    /\ \E i \in 1..Len(history_data) :
          /\ Row(i).effective_date = Date(2024, 11, 1)
          /\ Row(i).amount = 412000
          /\ billing_day_input = 31

\* the amount C11 prescribes: a function of the base amount, the fixed base
\* value, the month's own quote and the month's billing date
AmountFrom(base_amount, fixed_base, quote, billing_date) ==
    Fmt2(Mul(Mul(base_amount, Div(quote, fixed_base)),
             IF DateLE(FirstTriggerAfter(base_effective_date_obj), billing_date)
             THEN ANNUAL_LINKAGE_FACTOR ELSE Num(1)))

\* C11: the fixed base value stays the value first resolved for the fixed base
\* period, and the amount of every official row with a present quote is a
\* function of the base amount, the fixed base value, that month's own quote
\* and that month's billing date alone; the presence or absence of the other
\* months' quotes does not enter it.
C11_HistoryIndependence ==
    /\ fixed_base_period \in DOMAIN cpi_cache =>
          fixed_base_cpi_value = cpi_cache[fixed_base_period]
    /\ \A i \in OfficialRows :
          Row(i).quote # None =>
              /\ Row(i).quote = cpi_cache[Row(i).applied_period]
              /\ Row(i).billing_date =
                    PrescribedBillingDate(Row(i).effective_date.year,
                                          Row(i).effective_date.month)
              /\ Row(i).amount = AmountFrom(base_mizono_amount, fixed_base_cpi_value,
                                            Row(i).quote, Row(i).billing_date)

\* an official month with a quote follows an official month without one and
\* an official month whose quote had moved the amount
C11_Witness ==
    \E i, j, k \in OfficialRows :
        /\ i < j /\ j < k
        /\ Row(i).quote # None /\ Row(i).amount # Fmt2(base_mizono_amount)
        /\ Row(j).quote = None
        /\ Row(k).quote # None
        /\ Row(k).amount # Row(i).amount
        /\ Row(k).annual_factor = Some(10740)

\* the turns of the month-walking loop taken so far
StepsTaken == MonthIndex(current_scan_date) - MonthIndex(base_effective_date_obj)

\* one turn per month: a turn moves the scan date one month on while months of
\* the range are left, and the loop is left exactly when none is
LoopStep ==
    /\ (pc # "loop" /\ pc' = "loop") => StepsTaken' = 0
    /\ pc = "loop" =>
          \/ /\ pc' = "loop"
             /\ StepsTaken < Len(ExpectedMonths)
             /\ StepsTaken' = StepsTaken + 1
             /\ Len(history_data') = StepsTaken'
          \/ /\ pc' = "done"
             /\ StepsTaken = Len(ExpectedMonths)
             /\ current_scan_date' = current_scan_date

\* C12: for every configuration and every quote-availability pattern the
\* month-walking loop terminates, after exactly one step per calendar month
\* from baseEffectiveDate through scanEnd (zero steps when baseEffectiveDate is
\* after scanEnd).
C12_LoopTerminates ==
    /\ [][LoopStep]_vars
    /\ (pc = "loop") ~> (pc = "done")

\* a loop that ended after one turn for each of more than twelve months
C12_Witness ==
    /\ pc = "done"
    /\ HeadlineShown
    /\ Len(ExpectedMonths) > 12
    /\ StepsTaken = Len(ExpectedMonths)
    /\ Len(history_data) = StepsTaken

\* a loop that ended without a turn: the base month is after scanEnd
C12_ZeroSteps ==
    /\ pc = "done"
    /\ HeadlineShown
    /\ Len(ExpectedMonths) = 0
    /\ StepsTaken = 0
    /\ history_data = <<>>

----------------------------------------------------------------------------
(* C13 *)

\* today's period: the month two months before today
TodayPeriod == <<AddMonths(today, -2).year, AddMonths(today, -2).month>>

\* the official rows of today's month
TodayRows ==
    {i \in OfficialRows : /\ Row(i).effective_date.year = today.year
                          /\ Row(i).effective_date.month = today.month}

TodayQuotePresent == TodayPeriod \in DOMAIN cpi_cache /\ cpi_cache[TodayPeriod] # None

\* C13: whenever today's month is an official update point and the quote for
\* today's period is present, the headline amount and its annual multiplier
\* equal the amount and the annual multiplier of the timeline row of today's
\* month: both are computed from the same quote and the same billing date, and
\* the headline is not an estimate.
C13_HeadlineMatchesTimeline ==
    \A i \in TodayRows :
        TodayQuotePresent =>
            /\ HeadlineShown
            /\ ~st_success[1].estimate
            /\ Row(i).quote = current_period_cpi_value_for_final_calc
            /\ Row(i).quote = cpi_cache[TodayPeriod]
            /\ Row(i).billing_date = current_billing_date_for_final_calc
            /\ Row(i).amount = st_success[1].amount
            /\ Row(i).annual_factor = Some(st_success[1].multiplier)

\* today's month is an official month after the first trigger date, its quote
\* is present, the billing day is the 31st and the loop has walked past it
C13_Witness ==
    /\ billing_day_input = 31
    /\ TodayQuotePresent
    /\ \E i \in TodayRows :
          /\ i > 1
          /\ i < Len(history_data)
          /\ Row(i).quote # None
          /\ Row(i).annual_factor = Some(10740)
          /\ Row(i).amount = st_success[1].amount
          /\ Row(i).amount # Fmt2(base_mizono_amount)

====
